---------------------------- MODULE Spec2Model ----------------------------
(***************************************************************************)
(* Procedural kinematic rig, analytic IK solver, pick-and-place motion     *)
(* cycle and the animation-frame loop that drives them.                    *)
(*                                                                         *)
(* The repository holds several revisions of the same files.  The model    *)
(* carries the revision as state chosen at Init:                           *)
(*   variant "A" : part_005 lines 313-553   (guarded solveIK, freq 0.15)   *)
(*   variant "B" : part_005 lines 796-1218  (full rig, unguarded solveIK)  *)
(*   variant "C" : part_006 lines 191-440   (guarded solveIK, freq 0.25)   *)
(*   hook "H7"   : part_007 useThreeScene   (mountedRef, clearTimeout)     *)
(*   hook "H8"   : part_008 useThreeScene   (closure `mounted`)            *)
(*   hook "H0"   : src/hooks/useThreeScene.ts (synchronous init)           *)
(*   hook "Scene": src/components/3d/RoboticScene.tsx Scene.useEffect      *)
(*                                                                         *)
(* Real numbers are fixed point: lengths and angles in thousandths         *)
(* (Scale), time in ticks of 1/TimeDen second.  Math.sin, Math.acos,       *)
(* Math.atan2 and Math.sqrt are integer approximations that are exact at   *)
(* the values the properties speak about (acos(1) = 0, acos(-1) = PI,      *)
(* atan2(0, z>0) = 0, atan2(x>0, 0) = PI/2).  NaN is a reserved value that *)
(* every arithmetic operator propagates.                                   *)
(***************************************************************************)
EXTENDS Integers, Sequences, FiniteSets, TLC

(* ------------------------------ bounds --------------------------------- *)
\* ticks per second of the model clock
TimeDen == 2
\* last clock value (ticks) at which a frame may still fire
MaxTime == 70
\* largest gap between two successive frames (ticks)
MaxDt == 9
\* number of times the hosting effect may run (first mount + re-runs)
MaxGen == 2
\* smoothStep is applied to the progress values k / EaseSteps
EaseSteps == 40
\* runs of animateConveyor after which the model stops following the rollers
MaxRoll == 30
\* number of rigs built side by side
MaxRigs == 2
\* direct calls of animateUniversalRobot draw their time from
\* CallStride * (-2 .. MaxCallSteps) ticks
MaxCallSteps == 14
CallStride == 5

(* --------------------------- fixed point -------------------------------- *)
Scale == 10 * 100
NaN == 0 - 1000000 * 1000
PI == 3142
HalfPI == PI \div 2

IsNum(v) == v # NaN
Add(a, b) == IF IsNum(a) /\ IsNum(b) THEN a + b ELSE NaN
Sub(a, b) == IF IsNum(a) /\ IsNum(b) THEN a - b ELSE NaN
\* product of two fixed-point numbers, rounded toward minus infinity
Mul(a, b) == IF IsNum(a) /\ IsNum(b) THEN (a * b) \div Scale ELSE NaN
Abs(a) == IF a < 0 THEN -a ELSE a
MinOf(a, b) == IF a < b THEN a ELSE b
MaxOf(a, b) == IF a > b THEN a ELSE b

\* the value of a `const` local: the single element of a one-element set
Only(S) == CHOOSE x \in S : TRUE

\* JavaScript's % : the result takes the sign of the dividend
JsRem(a, b) == IF a >= 0 THEN a % b ELSE -((-a) % b)

RECURSIVE SqrtIter(_, _, _)
SqrtIter(n, lo, hi) ==
  IF lo >= hi THEN lo
  ELSE LET mid == (lo + hi + 1) \div 2
       IN  IF mid * mid <= n THEN SqrtIter(n, mid, hi) ELSE SqrtIter(n, lo, mid - 1)

\* Math.sqrt on a non-negative integer (floor of the root); NaN for NaN or negative
Sqrt(n) == IF ~IsNum(n) \/ n < 0 THEN NaN ELSE SqrtIter(n, 0, 46340)

\* Math.sin, argument and result in thousandths (Bhaskara's approximation on [0, PI])
SinPos(x) == LET p == x * (PI - x) IN (16 * p) \div ((5 * PI * PI - 4 * p) \div Scale)
Sin(x) ==
  IF ~IsNum(x) THEN NaN
  ELSE LET r == x % (2 * PI)
       IN  IF r <= PI THEN SinPos(r) ELSE -SinPos(r - PI)
Cos(x) == IF ~IsNum(x) THEN NaN ELSE Sin(x + HalfPI)

\* Math.acos: NaN outside [-1, 1]; acos(1) = 0, acos(0) = PI/2, acos(-1) = PI
AcosPos(c) ==
  LET c2 == (c * c) \div Scale
      c3 == (c2 * c) \div Scale
      poly == HalfPI - (212 * c) \div Scale + (74 * c2) \div Scale - (19 * c3) \div Scale
      root == SqrtIter((Scale - c) * Scale, 0, 46340)
  IN  (root * poly) \div Scale
Acos(c) ==
  IF ~IsNum(c) \/ c > Scale \/ c < -Scale THEN NaN
  ELSE IF c >= 0 THEN AcosPos(c) ELSE PI - AcosPos(-c)

\* atan(lo/hi) for 0 <= lo <= hi, hi > 0
AtanUnit(lo, hi) ==
  LET r == (lo * Scale) \div hi
  IN  (r * (PI \div 4)) \div Scale + (273 * ((r * (Scale - r)) \div Scale)) \div Scale
AtanFirst(y, x) ==
  IF x = 0 /\ y = 0 THEN 0
  ELSE IF y <= x THEN AtanUnit(y, x) ELSE HalfPI - AtanUnit(x, y)
\* mutation of Atan2: the angle is normalised to [0, 2 PI) instead of (-PI, PI]
Atan2_Positive(y, x) ==
  IF ~IsNum(y) \/ ~IsNum(x) THEN NaN
  ELSE LET a == AtanFirst(Abs(y), Abs(x))
           b == IF x >= 0 THEN a ELSE PI - a
       IN  IF y >= 0 THEN b ELSE 2 * PI - b

\* Math.atan2(y, x)
Atan2(y, x) ==
  IF ~IsNum(y) \/ ~IsNum(x) THEN NaN
  ELSE LET a == AtanFirst(Abs(y), Abs(x))
           b == IF x >= 0 THEN a ELSE PI - a
       IN  IF y >= 0 THEN b ELSE -b


(* ------------------------------ the rig --------------------------------- *)
Variants == {"A", "B", "C"}
Joints == 1..6
Vec(x, y, z) == [x |-> x, y |-> y, z |-> z]
ZeroVec == Vec(0, 0, 0)
\* a call that passes no targetRotation
NoRotation == Vec(NaN, NaN, NaN)

\* the robot argument when the reference is null
NullRig == [kind |-> "null"]

\* world transform of the robot group: translation, yaw and uniform scale
Transform(pos, rotY, scale) == [pos |-> pos, rotY |-> rotY, scale |-> scale]
IdentityXf == Transform(ZeroVec, 0, Scale)

\* link lengths hard-coded in solveIK
upperArmLength == 2400
forearmLength == 2200

\* the parent.add(child) calls of createUniversalRobot (with createRobotSegments
\* and createArmSegment in revisions A and C), as <<parent, child>> in call order
Adds(v) ==
  IF v = "B" THEN
    << <<"robotGroup", "base">>, <<"base", "basePlate">>, <<"basePlate", "joint1Group">>,
       <<"joint1Group", "joint1">>, <<"joint1Group", "shoulderGroup">>,
       <<"shoulderGroup", "shoulderHousing">>, <<"shoulderGroup", "joint2Group">>,
       <<"joint2Group", "joint2">>, <<"joint2Group", "upperArmGroup">>,
       <<"upperArmGroup", "upperArm">>, <<"upperArmGroup", "joint3Group">>,
       <<"joint3Group", "joint3">>, <<"joint3Group", "forearmGroup">>,
       <<"forearmGroup", "forearm">>, <<"forearmGroup", "joint4Group">>,
       <<"joint4Group", "joint4">>, <<"joint4Group", "wristGroup">>,
       <<"wristGroup", "wrist">>, <<"wristGroup", "joint5Group">>,
       <<"joint5Group", "joint5">>, <<"joint5Group", "flangeGroup">>,
       <<"flangeGroup", "flange">>, <<"flangeGroup", "joint6Group">>,
       <<"joint6Group", "joint6">>, <<"joint6Group", "gripperGroup">>,
       <<"gripperGroup", "gripperBase">>, <<"gripperGroup", "fingersGroup">>,
       <<"fingersGroup", "leftFinger1">>, <<"fingersGroup", "rightFinger1">>,
       <<"fingersGroup", "leftFinger2">>, <<"fingersGroup", "rightFinger2">> >>
  ELSE
    (IF v = "C" THEN << <<"robotGroup", "base">> >> ELSE << >>)
    \o << <<"segment1", "cylinder1">>, <<"segment1", "sphere1">>,
          <<"segment2", "cylinder2">>, <<"segment2", "sphere2">>,
          <<"segment3", "cylinder3">>, <<"segment3", "sphere3">> >>
    \o (IF v = "A" THEN << <<"segment3", "gripper">> >> ELSE << >>)
    \o << <<"segments", "segment1">>, <<"segment1", "segment2">>,
          <<"segment2", "segment3">>, <<"robotGroup", "segments">> >>

\* node.children[0]; "undefined" for a node without children and for undefined
FirstChild(v, n) ==
  LET at == {i \in 1..Len(Adds(v)) : Adds(v)[i][1] = n}
  IN  IF at = {} THEN "undefined"
      ELSE Adds(v)[CHOOSE i \in at : \A j \in at : i <= j][2]

\* the node userData.joint<k>Group refers to, "undefined" when there is none:
\* revision B stores the groups by name, revisions A and C take children[0]
\* of the previous reference, starting from the segments group
RECURSIVE JointNode(_, _)
JointNode(v, k) ==
  IF v = "B" THEN
    CASE k = 1 -> "joint1Group" [] k = 2 -> "joint2Group" [] k = 3 -> "joint3Group"
      [] k = 4 -> "joint4Group" [] k = 5 -> "joint5Group" [] OTHER -> "joint6Group"
  ELSE IF k = 1 THEN FirstChild(v, "segments")
  ELSE IF v = "C" /\ k > 3 THEN "undefined"
  ELSE FirstChild(v, JointNode(v, k - 1))

\* strict ancestors of a node in the scene graph the add calls build
RECURSIVE Ancestors(_, _)
Ancestors(v, n) ==
  LET up == {Adds(v)[i][1] : i \in {j \in 1..Len(Adds(v)) : Adds(v)[j][2] = n}}
  IN  up \cup UNION {Ancestors(v, a) : a \in up}

\* the four finger meshes of the gripper: leftFingers and rightFingers
LeftFingers == {"leftFinger1", "leftFinger2"}
RightFingers == {"rightFinger1", "rightFinger2"}
Fingers == LeftFingers \cup RightFingers

\* leftFingerN.position.set(-0.15, ...), rightFingerN.position.set(0.15, ...)
RestFingerX == [f \in Fingers |-> IF f \in LeftFingers THEN -150 ELSE 150]

\* the gsap tween running on each finger's position, if any
NoTweens == [f \in Fingers |-> [on |-> FALSE, x |-> 0, duration |-> 0]]

\* the offsets built between the joints of the shoulder/elbow chain:
\*   revision B: joint3Group.position.z = 2.4 below joint2Group,
\*               joint4Group.position.z = 2.2 below joint3Group;
\*   revision A: segment3.position.y = 1.8 above segment2,
\*               gripper.position.y = 1.6 above segment3;
\*   revision C: segment3.position.y = 0.8 above segment2, and a last
\*               segment of height 0.6 with nothing attached to it.
LinkOffsets(v) ==
  CASE v = "B" -> [upper |-> 2400, fore |-> 2200]
    [] v = "A" -> [upper |-> 1800, fore |-> 1600]
    [] OTHER   -> [upper |-> 800, fore |-> 600]

\* createUniversalRobot: the rig each revision builds.
\*   joints    - the jointNGroup references that are defined in userData
\*   settable  - the referenced nodes that carry a rotation/position
\*   revision A and C read jointNGroup as children[0] of the previous segment,
\*   which is the segment's cylinder mesh: joint2Group is that mesh and
\*   joint3Group (the mesh's first child) is undefined.
createUniversalRobot(v) ==
  IF v = "B" THEN
    [kind |-> "group", userData |-> TRUE,
     joints |-> {k \in Joints : JointNode(v, k) # "undefined"},
     settable |-> {k \in Joints : JointNode(v, k) # "undefined"}, hasAngles |-> TRUE,
     jointAngles |-> [k \in Joints |-> 0],
     rot |-> [k \in Joints |->
                CASE k = 1 -> Vec(0, PI \div 6, 0)
                  [] k = 2 -> Vec(-(PI \div 6), 0, 0)
                  [] k = 3 -> Vec(PI \div 3, 0, 0)
                  [] k = 4 -> Vec(0, 0, PI \div 6)
                  [] k = 5 -> Vec(-(PI \div 6), 0, 0)
                  [] OTHER -> Vec(0, 0, -90 * Scale)],
     joint2PosY |-> 0, links |-> LinkOffsets(v),
     fingers |-> TRUE, tweenWidth |-> 0, fingerX |-> RestFingerX, tweens |-> NoTweens,
     isGripping |-> FALSE, ikTarget |-> ZeroVec,
     xf |-> Transform(Vec(0, -1500, 0), -(PI \div 5), Scale)]
  ELSE
    [kind |-> "group", userData |-> TRUE,
     joints |-> {k \in Joints : JointNode(v, k) # "undefined"},
     settable |-> {k \in Joints : JointNode(v, k) # "undefined"}, hasAngles |-> TRUE,
     jointAngles |-> [k \in Joints |-> 0],
     rot |-> [k \in Joints |-> ZeroVec],
     joint2PosY |-> IF v = "A" THEN 1000 ELSE 500, links |-> LinkOffsets(v),
     fingers |-> FALSE, tweenWidth |-> 0, fingerX |-> RestFingerX, tweens |-> NoTweens,
     isGripping |-> FALSE, ikTarget |-> ZeroVec,
     xf |-> IdentityXf]

\* targetPosition.applyMatrix4(inverse(robot.matrixWorld))
WorldToLocal(xf, p) ==
  LET dx == p.x - xf.pos.x
      dy == p.y - xf.pos.y
      dz == p.z - xf.pos.z
      c  == Cos(xf.rotY)
      s  == Sin(xf.rotY)
      rx == Mul(c, dx) - Mul(s, dz)
      rz == Mul(s, dx) + Mul(c, dz)
  IN  Vec((rx * Scale) \div xf.scale, (dy * Scale) \div xf.scale, (rz * Scale) \div xf.scale)

(* ----------------------------- solveIK ---------------------------------- *)
\* mutation of Clamp: the argument of acos is not clamped at all
Clamp_None(c) == c

\* mutation of Clamp: the lower bound Math.max(-1, ...) is missing
Clamp_NoLower(c) == IF ~IsNum(c) THEN NaN ELSE MinOf(Scale, c)

\* mutation of Clamp: the upper bound Math.min(1, ...) is missing
Clamp_NoUpper(c) == IF ~IsNum(c) THEN NaN ELSE MaxOf(-Scale, c)

\* Math.min(1, Math.max(-1, c))
Clamp(c) == IF ~IsNum(c) THEN NaN ELSE MinOf(Scale, MaxOf(-Scale, c))

\* mutation of CosineArg: the numerator is subtracted the wrong way round
CosineArg_Negated(distanceSq) ==
  LET num == distanceSq - upperArmLength * upperArmLength - forearmLength * forearmLength
      den == 2 * upperArmLength * forearmLength
  IN  IF num >= 0 THEN num \div (den \div Scale)
      ELSE -((-num) \div (den \div Scale))

\* mutation of CosineArg: the factor 2 of the denominator is missing
CosineArg_NoTwo(distanceSq) ==
  LET num == upperArmLength * upperArmLength + forearmLength * forearmLength - distanceSq
      den == upperArmLength * forearmLength
  IN  IF num >= 0 THEN num \div (den \div Scale)
      ELSE -((-num) \div (den \div Scale))

\* (upperArmSq + forearmSq - distanceSq) / (2 * upperArmLength * forearmLength),
\* in thousandths, rounded toward zero
CosineArg(distanceSq) ==
  LET num == upperArmLength * upperArmLength + forearmLength * forearmLength - distanceSq
      den == 2 * upperArmLength * forearmLength
  IN  IF num >= 0 THEN num \div (den \div Scale)
      ELSE -((-num) \div (den \div Scale))

\* mutation of BaseYaw: the arguments of atan2 are the other way round
BaseYaw_Swapped(local) == Atan2(local.z, local.x)

\* jointAngles.joint1 = Math.atan2(localTarget.x, localTarget.z)
BaseYaw(local) == Atan2(local.x, local.z)

\* the numbers solveIK derives from a local target and the shoulder height
IKAngles(local, shoulderY) ==
  LET distance    == Sqrt(local.x * local.x + local.z * local.z)
      heightDiff  == local.y - shoulderY
      distanceSq  == distance * distance + heightDiff * heightDiff
      arg         == CosineArg(distanceSq)
      clamped     == Clamp(arg)
      elbowAngle  == Sub(PI, Acos(clamped))
      shoulderAngle ==
        Add(Atan2(heightDiff, distance),
            Atan2(Mul(forearmLength, Sin(elbowAngle)),
                  Add(upperArmLength, Mul(forearmLength, Cos(elbowAngle)))))
  IN  [joint1 |-> BaseYaw(local),
       distance |-> distance, heightDiff |-> heightDiff, distanceSq |-> distanceSq,
       arg |-> arg, clamped |-> clamped,
       elbowAngle |-> elbowAngle, shoulderAngle |-> shoulderAngle,
       computed |-> FALSE]

\* mutation of SetAngle: the solved angle is added to the stored one
SetAngle_Accumulate(rig, k, a) == [rig EXCEPT !.jointAngles[k] = Add(@, a)]

\* jointAngles.jointK = a
SetAngle(rig, k, a) == [rig EXCEPT !.jointAngles[k] = a]

SetRotX(rig, k, a) == [rig EXCEPT !.rot[k].x = a]
SetRotY(rig, k, a) == [rig EXCEPT !.rot[k].y = a]
SetRotZ(rig, k, a) == [rig EXCEPT !.rot[k].z = a]
Usable(rig, k) == k \in rig.joints /\ k \in rig.settable

\* the locals of a call that returned before computing them
NoIK == [joint1 |-> 0, distance |-> 0, heightDiff |-> 0, distanceSq |-> 0,
         arg |-> 0, clamped |-> 0, elbowAngle |-> 0, shoulderAngle |-> 0,
         computed |-> FALSE]
Computed(ik) == [ik EXCEPT !.computed = TRUE]

\* how a call of solveIK ends: the rig afterwards, whether a TypeError left
\* the function, and the locals it had computed
Returned(rig, ik) == [rig |-> rig, threw |-> FALSE, ik |-> ik]
Thrown(rig, ik) == [rig |-> rig, threw |-> TRUE, ik |-> ik]

\* revisions A and C, after the angles are computed: every rotation write
\* guarded by `if (jointNGroup.rotation)`
writeGuarded(rig, ik, rotation) ==
  LET r1 == SetAngle(rig, 1, ik.joint1)
      r2 == IF 1 \in rig.settable THEN SetRotY(r1, 1, ik.joint1) ELSE r1
      r3 == SetAngle(SetAngle(r2, 2, ik.shoulderAngle), 3, ik.elbowAngle)
      r4 == IF 2 \in rig.settable THEN SetRotZ(r3, 2, ik.shoulderAngle) ELSE r3
      r5 == IF 3 \in rig.settable THEN SetRotZ(r4, 3, Sub(ik.elbowAngle, HalfPI)) ELSE r4
  IN  IF rotation # NoRotation /\ Usable(rig, 4) /\ Usable(rig, 5) /\ Usable(rig, 6)
      THEN Returned(SetRotX(SetRotY(SetRotZ(
             SetAngle(SetAngle(SetAngle(r5, 4, rotation.z), 5, rotation.y), 6, rotation.x),
             4, rotation.z), 5, rotation.y), 6, rotation.x), ik)
      ELSE Returned(r5, ik)

\* revisions A and C: early return when joint1/2/3 are missing
solveIKGuarded(rig, target, rotation) ==
  IF rig.kind # "group" \/ ~rig.userData THEN Returned(rig, NoIK)
  ELSE IF ~({1, 2, 3} \subseteq rig.joints) THEN Returned(rig, NoIK)
  ELSE IF ~rig.hasAngles THEN Thrown(rig, NoIK)
  ELSE
    Only({writeGuarded(rig, ik, rotation) :
            ik \in {Computed(IKAngles(local, IF 2 \in rig.settable THEN rig.joint2PosY ELSE 0)) :
                      local \in {WorldToLocal(rig.xf, target)}}})

\* mutation of writeUnguarded: jointAngles.joint1 and joint1Group.rotation.y
\* keep the values an earlier call left there
writeUnguarded_StaleYaw(rig, ik, rotation) ==
  LET r3 == SetRotZ(SetAngle(SetAngle(rig, 2, ik.shoulderAngle), 3, ik.elbowAngle),
                    2, ik.shoulderAngle)
      r4 == SetRotZ(r3, 3, Sub(ik.elbowAngle, HalfPI))
      r5 == SetAngle(SetAngle(SetAngle(r4, 4, rotation.z), 5, rotation.y), 6, rotation.x)
      r6 == SetRotZ(r5, 4, rotation.z)
      r7 == SetRotY(r6, 5, rotation.y)
  IN  IF ~Usable(rig, 1) THEN Thrown(rig, NoIK)
      ELSE IF ~Usable(rig, 2) THEN Thrown(rig, NoIK)
      ELSE IF ~Usable(rig, 3) THEN Thrown(r3, ik)
      ELSE IF rotation = NoRotation THEN Returned(r4, ik)
      ELSE IF ~Usable(rig, 4) THEN Thrown(r5, ik)
      ELSE IF ~Usable(rig, 5) THEN Thrown(r6, ik)
      ELSE IF ~Usable(rig, 6) THEN Thrown(r7, ik)
      ELSE Returned(SetRotX(r7, 6, rotation.x), ik)

\* revision B: no guard after the userData test; a missing reference raises
\* a TypeError at the statement that dereferences it, after the earlier
\* statements have taken effect
writeUnguarded(rig, ik, rotation) ==
  LET r1 == SetAngle(rig, 1, ik.joint1)
      r2 == SetRotY(r1, 1, ik.joint1)
      r3 == SetRotZ(SetAngle(SetAngle(r2, 2, ik.shoulderAngle), 3, ik.elbowAngle),
                    2, ik.shoulderAngle)
      r4 == SetRotZ(r3, 3, Sub(ik.elbowAngle, HalfPI))
      r5 == SetAngle(SetAngle(SetAngle(r4, 4, rotation.z), 5, rotation.y), 6, rotation.x)
      r6 == SetRotZ(r5, 4, rotation.z)
      r7 == SetRotY(r6, 5, rotation.y)
  IN  IF ~Usable(rig, 1) THEN Thrown(r1, NoIK)
      ELSE IF ~Usable(rig, 2) THEN Thrown(r2, NoIK)
      ELSE IF ~Usable(rig, 3) THEN Thrown(r3, ik)
      ELSE IF rotation = NoRotation THEN Returned(r4, ik)
      ELSE IF ~Usable(rig, 4) THEN Thrown(r5, ik)
      ELSE IF ~Usable(rig, 5) THEN Thrown(r6, ik)
      ELSE IF ~Usable(rig, 6) THEN Thrown(r7, ik)
      ELSE Returned(SetRotX(r7, 6, rotation.x), ik)

solveIKUnguarded(rig, target, rotation) ==
  IF rig.kind # "group" \/ ~rig.userData THEN Returned(rig, NoIK)
  ELSE IF ~rig.hasAngles THEN Thrown(rig, NoIK)
  ELSE
    Only({writeUnguarded(rig, ik, rotation) :
            ik \in {Computed(IKAngles(local, rig.joint2PosY)) :
                      local \in {WorldToLocal(rig.xf, target)}}})

solveIK(v, rig, target, rotation) ==
  IF v = "B" THEN solveIKUnguarded(rig, target, rotation)
  ELSE solveIKGuarded(rig, target, rotation)

(* ------------------------- motion cycle --------------------------------- *)
\* frequency scale factor of the cycle, as a fraction: 0.15 in revision A,
\* 0.25 in revisions B and C
FreqNum(v) == IF v = "A" THEN 3 ELSE 1
FreqDen(v) == IF v = "A" THEN 20 ELSE 4

\* time * freq for a time of t ticks is TimeFreqNum(v, t) / TimeFreqDen(v)
TimeFreqNum(v, t) == t * FreqNum(v)
TimeFreqDen(v) == TimeDen * FreqDen(v)

\* mutation of CycleOf: Math.round in place of Math.floor
CycleOf_Rounded(v, t) ==
  JsRem((2 * TimeFreqNum(v, t) + TimeFreqDen(v)) \div (2 * TimeFreqDen(v)), 4)

\* mutation of CycleOf: the modulus is one short, so phase 3 never comes
CycleOf_Mod3(v, t) == JsRem(TimeFreqNum(v, t) \div TimeFreqDen(v), 3)

\* const cycle = Math.floor(time * freq) % 4
CycleOf(v, t) == JsRem(TimeFreqNum(v, t) \div TimeFreqDen(v), 4)

\* const cycleTime = (time * freq) % 1, as a numerator over TimeFreqDen(v)
CycleTimeNum(v, t) == JsRem(TimeFreqNum(v, t), TimeFreqDen(v))

\* cycleTime in thousandths
CycleTime(v, t) ==
  LET n == CycleTimeNum(v, t)
  IN  IF n >= 0 THEN (n * Scale) \div TimeFreqDen(v) ELSE -(((-n) * Scale) \div TimeFreqDen(v))

\* the branch of smoothStep for x < 0.5: 2 * x * x
EaseIn(x) == (2 * x * x) \div Scale

\* mutation of EaseOut: the division by 2 is missing
EaseOut_NoHalf(x) == Scale - ((2 * Scale - 2 * x) * (2 * Scale - 2 * x)) \div Scale

\* the other branch of smoothStep: 1 - Math.pow(-2 * x + 2, 2) / 2
EaseOut(x) == Scale - (((2 * Scale - 2 * x) * (2 * Scale - 2 * x)) \div Scale) \div 2

\* function smoothStep(x): x < 0.5 ? 2 * x * x : 1 - Math.pow(-2 * x + 2, 2) / 2
smoothStep(x) == IF 2 * x < Scale THEN EaseIn(x) ELSE EaseOut(x)

\* time * k for a rate k given in hundredths, in thousandths of a radian
Phase(t, hundredths) == (t * hundredths * 10) \div TimeDen

\* mutation of ReleaseGrip: the comparison is the wrong way round
ReleaseGrip_Inverted(v, t) == 10 * CycleTimeNum(v, t) > 3 * TimeFreqDen(v)

\* grip = cycleTime < 0.3 in the release phase
ReleaseGrip(v, t) == 10 * CycleTimeNum(v, t) < 3 * TimeFreqDen(v)

\* mutation of GripOf: the transfer phase forgets to keep the gripper closed
GripOf_OpenInTransfer(v, t) ==
  LET cycle == CycleOf(v, t)
  IN  IF v = "A" THEN FALSE
      ELSE CASE cycle = 1 -> TRUE
             [] cycle = 3 -> ReleaseGrip(v, t)
             [] OTHER -> FALSE

\* the gripper output of the switch; revision A has no gripper output
GripOf(v, t) ==
  LET cycle == CycleOf(v, t)
  IN  IF v = "A" THEN FALSE
      ELSE CASE cycle = 0 -> FALSE
             [] cycle = 1 -> TRUE
             [] cycle = 2 -> TRUE
             [] cycle = 3 -> ReleaseGrip(v, t)
             [] OTHER -> FALSE

\* mutation of TargetAt: the lift of phase 1 rises by half the height
TargetAt_HalfLift(v, cycle, s, sin1, cos1, sin2) ==
  LET baseX == IF v = "B" THEN 4000 ELSE 2000
      endX  == IF v = "B" THEN 2000 ELSE 0
  IN  IF v = "A" THEN
        CASE cycle = 0 -> Vec(3 * sin1, 1000 + Mul(sin2, 500), 2 * cos1)
          [] cycle = 1 -> Vec(3 * sin1, 1000 + s, 2 * cos1)
          [] cycle = 2 -> Vec(Mul(3 * sin1, Scale - s), 3000 - Mul(s, 1500),
                              Mul(2 * cos1, Scale - s))
          [] cycle = 3 -> Vec(Mul(s, 500), 1500 - s, Mul(s, 500))
          [] OTHER -> ZeroVec
      ELSE
        CASE cycle = 0 -> Vec(baseX + Mul(sin1, 300), -1000 - Mul(s, 1500),
                              1000 + Mul(cos1, 300))
          [] cycle = 1 -> Vec(baseX + Mul(sin1, 300), -2500 + s,
                              1000 + Mul(cos1, 300))
          [] cycle = 2 -> Vec(baseX + Mul(sin1, 300) - 2 * s, -500,
                              1000 + Mul(cos1, 300) - s)
          [] cycle = 3 -> Vec(endX + Mul(sin1, 300), -500 - Mul(s, 500),
                              Mul(cos1, 300))
          [] OTHER -> ZeroVec

\* the switch over cycle: the target before the oscillation is put in a
\* Vector3.  When no case matches (negative cycle) revisions A and C keep
\* the initial 0 and revision B passes undefined to the Vector3 constructor,
\* whose default parameters make it 0.
\* s is smoothCycleTime, sin1 and cos1 are Math.sin / Math.cos of time * 0.1
\* and sin2 is Math.sin(time * 0.2).
TargetAt(v, cycle, s, sin1, cos1, sin2) ==
  LET baseX == IF v = "B" THEN 4000 ELSE 2000
      endX  == IF v = "B" THEN 2000 ELSE 0
  IN  IF v = "A" THEN
        CASE cycle = 0 -> Vec(3 * sin1, 1000 + Mul(sin2, 500), 2 * cos1)
          [] cycle = 1 -> Vec(3 * sin1, 1000 + 2 * s, 2 * cos1)
          [] cycle = 2 -> Vec(Mul(3 * sin1, Scale - s), 3000 - Mul(s, 1500),
                              Mul(2 * cos1, Scale - s))
          [] cycle = 3 -> Vec(Mul(s, 500), 1500 - s, Mul(s, 500))
          [] OTHER -> ZeroVec
      ELSE
        CASE cycle = 0 -> Vec(baseX + Mul(sin1, 300), -1000 - Mul(s, 1500),
                              1000 + Mul(cos1, 300))
          [] cycle = 1 -> Vec(baseX + Mul(sin1, 300), -2500 + 2 * s,
                              1000 + Mul(cos1, 300))
          [] cycle = 2 -> Vec(baseX + Mul(sin1, 300) - 2 * s, -500,
                              1000 + Mul(cos1, 300) - s)
          [] cycle = 3 -> Vec(endX + Mul(sin1, 300), -500 - Mul(s, 500),
                              Mul(cos1, 300))
          [] OTHER -> ZeroVec

\* the target of the step at time t
TargetOf(v, t) ==
  TargetAt(v, CycleOf(v, t), smoothStep(CycleTime(v, t)),
           Sin(Phase(t, 10)), Cos(Phase(t, 10)), Sin(Phase(t, 20)))

\* new THREE.Euler(...) handed to solveIK
RotationOf(v, t) ==
  CASE v = "A" -> Vec(Mul(Sin(Phase(t, 30)), 200), Mul(Sin(Phase(t, 40)), 300),
                      Mul(Sin(Phase(t, 50)), 250))
    [] v = "B" -> Vec(0, Mul(Sin(Phase(t, 30)), 200), Mul(Sin(Phase(t, 50)), 300))
    [] OTHER   -> Vec(0, Mul(Sin(Phase(t, 30)), 100), Mul(Sin(Phase(t, 50)), 150))

\* const gripperWidth = grip ? 0.08 : 0.15
GripperWidth(grip) == IF grip THEN 80 ELSE 150

\* duration: 0.2 of every finger tween, in thousandths of a second
TweenDuration == 200

\* mutation of FingerTweens: the right fingers are sent to the same side as
\* the left ones
FingerTweens_SameSide(w) ==
  [f \in Fingers |-> [on |-> TRUE, x |-> -w, duration |-> TweenDuration]]

\* leftFingers.forEach(gsap.to(finger.position, {x: -gripperWidth, duration: 0.2,
\* overwrite: true})) and the same with +gripperWidth for rightFingers
FingerTweens(w) ==
  [f \in Fingers |-> [on |-> TRUE, x |-> IF f \in LeftFingers THEN -w ELSE w,
                      duration |-> TweenDuration]]

\* what one motion-cycle step computes from the time alone
MotionStep(v, t) ==
  [cycle |-> CycleOf(v, t), cycleTimeNum |-> CycleTimeNum(v, t),
   grip |-> GripOf(v, t), target |-> TargetOf(v, t), rotation |-> RotationOf(v, t)]
NoStep == [cycle |-> 0, cycleTimeNum |-> 0, grip |-> FALSE,
           target |-> ZeroVec, rotation |-> ZeroVec]

(* ----------------------- animateUniversalRobot -------------------------- *)
\* the result of one call: the rig afterwards, whether the call threw to
\* its caller, whether console.error was called, whether the motion step
\* ran at all, and what the step computed
Outcome(rig, threw, logged, ran, step, ik) ==
  [rig |-> rig, threw |-> threw, logged |-> logged, ran |-> ran, step |-> step, ik |-> ik]

\* revisions A and C: guard on joint1Group, try/catch around the body;
\* revision C then starts the finger tweens when both finger arrays exist
afterGuarded(v, rig, step, ik) ==
  IF ik.threw THEN Outcome(ik.rig, FALSE, TRUE, TRUE, step, ik.ik)
  ELSE IF v = "C" /\ rig.fingers
       THEN Outcome([ik.rig EXCEPT !.tweenWidth = GripperWidth(step.grip),
                                   !.tweens = FingerTweens(GripperWidth(step.grip))],
                    FALSE, FALSE, TRUE, step, ik.ik)
       ELSE Outcome(ik.rig, FALSE, FALSE, TRUE, step, ik.ik)

animateGuarded(v, rig, t) ==
  IF rig.kind # "group" \/ ~rig.userData \/ 1 \notin rig.joints
  THEN Outcome(rig, FALSE, FALSE, FALSE, NoStep, NoIK)
  ELSE
    Only({Only({afterGuarded(v, rig, step, ik) :
                  ik \in {solveIK(v, rig, step.target, step.rotation)}}) :
            step \in {MotionStep(v, t)}})

\* revision B: guard on userData only, no try/catch; after solveIK the
\* finger tweens are started and isGripping / ikTarget are stored
\* mutation of afterUnguarded: the gripper state is read back from the
\* isGripping the previous call stored, so a closed gripper stays closed
afterUnguarded_Sticky(v, rig, step, ik) ==
  IF ik.threw THEN Outcome(ik.rig, TRUE, FALSE, TRUE, step, ik.ik)
  ELSE Outcome([ik.rig EXCEPT
                  !.tweenWidth = IF rig.fingers THEN GripperWidth(rig.isGripping \/ step.grip)
                                 ELSE @,
                  !.tweens = IF rig.fingers
                             THEN FingerTweens(GripperWidth(rig.isGripping \/ step.grip))
                             ELSE @,
                  !.isGripping = rig.isGripping \/ step.grip,
                  !.ikTarget = step.target],
               FALSE, FALSE, TRUE, [step EXCEPT !.grip = rig.isGripping \/ step.grip], ik.ik)

afterUnguarded(v, rig, step, ik) ==
  IF ik.threw THEN Outcome(ik.rig, TRUE, FALSE, TRUE, step, ik.ik)
  ELSE Outcome([ik.rig EXCEPT
                  !.tweenWidth = IF rig.fingers THEN GripperWidth(step.grip) ELSE @,
                  !.tweens = IF rig.fingers THEN FingerTweens(GripperWidth(step.grip)) ELSE @,
                  !.isGripping = step.grip,
                  !.ikTarget = step.target],
               FALSE, FALSE, TRUE, step, ik.ik)

animateUnguarded(v, rig, t) ==
  IF rig.kind # "group" \/ ~rig.userData
  THEN Outcome(rig, FALSE, FALSE, FALSE, NoStep, NoIK)
  ELSE
    Only({Only({afterUnguarded(v, rig, step, ik) :
                  ik \in {solveIK(v, rig, step.target, step.rotation)}}) :
            step \in {MotionStep(v, t)}})

animateUniversalRobot(v, rig, t) ==
  IF v = "B" THEN animateUnguarded(v, rig, t) ELSE animateGuarded(v, rig, t)

(* ------------------------------- state ---------------------------------- *)
VARIABLES
  variant,    \* revision of the rig / IK / motion-cycle file in use
  hook,       \* revision of the hosting effect, "none" for direct calls
  robot,      \* the rig: robotRef.current in the loop, the argument of a direct call
  last,       \* what the most recent call or frame callback did
  clock,      \* the page clock in ticks (the timestamp handed to frame callbacks)
  gen,        \* how many times the hosting effect has run
  active,     \* the effect has run and its cleanup has not
  container,  \* containerRef.current is set
  mountedRef, \* mountedRef.current (part_007)
  mounted,    \* the closure variable `mounted` of each effect run (part_008)
  timeouts,   \* effect runs whose setTimeout(initScene, 0) is pending
  raf,        \* pending requestAnimationFrame requests: [id, gen]
  frameIds,   \* [0] frameIdRef.current; [g] animationFrameId of Scene's run g; 0 = unset
  refs,       \* sceneRef, cameraRef, rendererRef and robotRef are set
  renderer,   \* "none", "live" or "disposed"
  firstStep,  \* observer: the time and result of the first motion step of a run of
              \* ticks, and whether a tick with another time has come since
  pool,       \* several rigs side by side: the objects createUniversalRobot
              \* allocated and which of them each rig refers to
  probe,      \* the pure functions of the motion cycle applied to chosen inputs
  belt        \* the conveyor effect of RoboticScene (part_000) and its roller loop

vars == <<variant, hook, robot, last, clock, gen, active, container, mountedRef,
          mounted, timeouts, raf, frameIds, refs, renderer, firstStep, pool,
          probe, belt>>
sideVars == <<pool, probe, belt>>
loopVars == <<clock, gen, active, container, mountedRef, mounted, timeouts, raf,
              frameIds, refs, renderer>>

Hooks == {"H7", "H8", "H0", "Scene"}
Gens == 1..MaxGen

\* the rig createRoboticArm builds (hooks H0 and Scene); its joints are not
\* the universal robot's and are left abstract
ArmRig == [kind |-> "arm"]

\* what the frame callback before this one computed, when there was one
NoPrev == [has |-> FALSE, cycle |-> 0, grip |-> FALSE]
PrevOf(l) ==
  IF l.op = "frame" /\ l.ran THEN [has |-> TRUE, cycle |-> l.step.cycle, grip |-> l.step.grip]
  ELSE NoPrev

\* the local target and the yaw of the solveIK call before this one, when a
\* run of solves keeps them
NoBefore == [has |-> FALSE, local |-> ZeroVec, joint1 |-> 0]

NoCall ==
  [op |-> "none", time |-> 0, target |-> ZeroVec, rotation |-> ZeroVec,
   step |-> NoStep, ik |-> NoIK, threw |-> FALSE, logged |-> FALSE, ran |-> FALSE,
   rendered |-> FALSE, requested |-> FALSE, cancelled |-> FALSE, dt |-> 0,
   prev |-> NoPrev, before |-> NoBefore]

\* no motion step observed yet
NoFirst == [has |-> FALSE, time |-> 0, step |-> NoStep, between |-> FALSE]

\* no function applied yet
NoProbe ==
  [op |-> "none", x |-> 0, y |-> 0, px |-> 0, py |-> 0,
   phase |-> 0, atEnd |-> ZeroVec, atStart |-> ZeroVec]

\* the conveyor effect has not run
NoBelt ==
  [mounted |-> TRUE, ready |-> FALSE, scenes |-> 0, dirty |-> FALSE,
   conveyor |-> FALSE, starts |-> 0, pending |-> 0, calls |-> 0]

\* no rig allocated yet
NoPool == [count |-> 0, cells |-> <<>>, refs |-> <<>>, actor |-> 0]

\* the parts of the state a specification does not use
SideInit ==
  /\ pool = NoPool
  /\ probe = NoProbe
  /\ belt = NoBelt

LoopInit ==
  /\ clock = 0
  /\ gen = 0
  /\ active = FALSE
  /\ container = TRUE
  /\ mountedRef = TRUE
  /\ mounted = [g \in Gens |-> FALSE]
  /\ timeouts = {}
  /\ raf = {}
  /\ frameIds = [g \in 0..MaxGen |-> 0]
  /\ refs = FALSE
  /\ renderer = "none"

(* --------------------------- direct calls ------------------------------- *)
\* rigs handed to direct calls: the rig the revision builds, with some joint
\* references removed, one node without a rotation, or no jointAngles record
JointSets ==
  {1..k : k \in 0..6} \cup {Joints \ {k} : k \in Joints}
RigShapes ==
  {[joints |-> J, settable |-> J, hasAngles |-> TRUE] : J \in JointSets}
  \cup {[joints |-> Joints, settable |-> Joints \ {k}, hasAngles |-> TRUE] : k \in Joints}
  \cup {[joints |-> Joints, settable |-> Joints, hasAngles |-> FALSE]}
Shaped(rig, shape, xf) ==
  [rig EXCEPT !.joints = shape.joints, !.settable = shape.settable,
              !.hasAngles = shape.hasAngles, !.xf = xf]
CallRigs(v) ==
  {NullRig, [createUniversalRobot(v) EXCEPT !.userData = FALSE]}
  \cup {Shaped(createUniversalRobot(v), sh, xf) :
          sh \in RigShapes, xf \in {IdentityXf, createUniversalRobot(v).xf}}

\* inputs of direct calls: targets in thousandths of a unit, one call
\* without a targetRotation, times in ticks (some negative)
TargetXs == {-100, 0, 100, 4000}
TargetYs == {0, 500, 1000, 3000}
TargetZs == {-1000, 0, 2000}
CallTargets == {Vec(x, y, z) : x \in TargetXs, y \in TargetYs, z \in TargetZs}
CallRotation == Vec(100, -200, 300)
CallSolves ==
  {<<target, CallRotation>> : target \in CallTargets} \cup {<<Vec(100, 0, 2000), NoRotation>>}
CallTimes == {CallStride * k : k \in (0 - 2)..MaxCallSteps}

InitCall ==
  /\ variant \in Variants
  /\ hook = "none"
  /\ robot \in CallRigs(variant)
  /\ last = NoCall
  /\ firstStep = NoFirst
  /\ SideInit
  /\ LoopInit

\* solveIK(robot, targetPosition, targetRotation) called directly
CallSolveIK(target, rotation) ==
  /\ hook = "none"
  /\ \E res \in {solveIK(variant, robot, target, rotation)} :
         /\ robot' = res.rig
         /\ last' = [NoCall EXCEPT !.op = "solveIK", !.target = target,
                                   !.rotation = rotation, !.ik = res.ik,
                                   !.threw = res.threw, !.ran = TRUE]
  /\ UNCHANGED <<variant, hook, loopVars, firstStep, sideVars>>

\* animateUniversalRobot(robot, time) called directly
CallAnimate(t) ==
  /\ hook = "none"
  /\ \E out \in {animateUniversalRobot(variant, robot, t)} :
         /\ robot' = out.rig
         /\ last' = [NoCall EXCEPT !.op = "animate", !.time = t, !.step = out.step,
                                   !.target = out.step.target,
                                   !.rotation = out.step.rotation, !.ik = out.ik,
                                   !.threw = out.threw, !.logged = out.logged,
                                   !.ran = out.ran]
  /\ UNCHANGED <<variant, hook, loopVars, firstStep, sideVars>>

NextCall ==
  \/ \E call \in CallSolves : CallSolveIK(call[1], call[2])
  \/ \E t \in CallTimes : CallAnimate(t)

SpecCall == InitCall /\ [][NextCall]_vars

(* --------------------------- runs of solves ----------------------------- *)
\* solveIK called again and again on one rig: the rig the revision builds,
\* and a rig with all six joints placed at the identity with the shoulder at
\* the origin; each call remembers the call before it
SolveXs == {-1000, -100, 0, 100, 1000}
SolveYs == {0, 500}
SolveZs == {-1000, 0, 1000, 2000}
SolveTargets == {Vec(x, y, z) : x \in SolveXs, y \in SolveYs, z \in SolveZs}

InitSolve ==
  /\ variant \in Variants
  /\ hook = "none"
  /\ robot \in {createUniversalRobot(variant),
                [createUniversalRobot(variant) EXCEPT
                   !.joints = Joints, !.settable = Joints, !.xf = IdentityXf,
                   !.joint2PosY = 0]}
  /\ last = NoCall
  /\ firstStep = NoFirst
  /\ SideInit
  /\ LoopInit

Solve(target, rotation) ==
  /\ hook = "none"
  /\ \E res \in {solveIK(variant, robot, target, rotation)} :
         /\ robot' = res.rig
         /\ last' = [NoCall EXCEPT
                       !.op = "solveIK", !.target = target, !.rotation = rotation,
                       !.ik = res.ik, !.threw = res.threw, !.ran = TRUE,
                       !.before =
                         IF last.op = "solveIK" /\ last.ik.computed
                         THEN [has |-> TRUE, local |-> WorldToLocal(robot.xf, last.target),
                               joint1 |-> robot.jointAngles[1]]
                         ELSE NoBefore]
  /\ UNCHANGED <<variant, hook, loopVars, firstStep, sideVars>>

NextSolve == \E target \in SolveTargets : Solve(target, CallRotation)

SpecSolve == InitSolve /\ [][NextSolve]_vars

(* --------------------------- runs of ticks ------------------------------ *)
\* animateUniversalRobot called again and again on the rig the revision
\* builds (and on that rig as initScene places it), with times in any order
InitTick ==
  /\ variant \in Variants
  /\ hook = "none"
  /\ robot \in {createUniversalRobot(variant),
                [createUniversalRobot(variant) EXCEPT !.xf = IdentityXf]}
  /\ last = NoCall
  /\ firstStep = NoFirst
  /\ SideInit
  /\ LoopInit

Tick(t) ==
  /\ hook = "none"
  /\ \E out \in {animateUniversalRobot(variant, robot, t)} :
         /\ robot' = out.rig
         /\ last' = [NoCall EXCEPT !.op = "animate", !.time = t, !.step = out.step,
                                   !.target = out.step.target,
                                   !.rotation = out.step.rotation, !.ik = out.ik,
                                   !.threw = out.threw, !.logged = out.logged,
                                   !.ran = out.ran]
         /\ firstStep' = IF ~out.ran THEN firstStep
                         ELSE IF ~firstStep.has
                         THEN [has |-> TRUE, time |-> t, step |-> out.step, between |-> FALSE]
                         ELSE [firstStep EXCEPT !.between = @ \/ t # firstStep.time]
  /\ UNCHANGED <<variant, hook, loopVars, sideVars>>

NextTick == \E t \in CallTimes : Tick(t)

SpecTick == InitTick /\ [][NextTick]_vars

(* --------------------------- rigs side by side -------------------------- *)
\* createUniversalRobot called up to MaxRigs times.  Each call evaluates the
\* object literals of its body anew: call n gets its own jointAngles record,
\* its own joint nodes and its own userData object.  The cells are the
\* objects; a rig is the cells it refers to.
FreeCell == [kind |-> "free"]
CellIds == 1..(3 * MaxRigs)

\* mutation of AnglesCell: one jointAngles record at module level, shared by
\* every rig
AnglesCell_Shared(n) == 1

\* jointAngles: { joint1: 0, ... } evaluated by call n
AnglesCell(n) == 3 * (n - 1) + 1

\* the joint groups and fingers call n constructs
NodesCell(n) == 3 * (n - 1) + 2

\* robotGroup.userData = { ... } of call n (isGripping, ikTarget)
DataCell(n) == 3 * (n - 1) + 3

\* rig i as its owner sees it
ViewIn(p, i) ==
  [robot EXCEPT !.jointAngles = p.cells[p.refs[i].angles].jointAngles,
                !.rot = p.cells[p.refs[i].nodes].rot,
                !.tweenWidth = p.cells[p.refs[i].nodes].tweenWidth,
                !.tweens = p.cells[p.refs[i].nodes].tweens,
                !.isGripping = p.cells[p.refs[i].data].isGripping,
                !.ikTarget = p.cells[p.refs[i].data].ikTarget]

\* the writes a call made to rig, carried to the objects the references name
StoreIn(cells, ref, rig) ==
  [cells EXCEPT
     ![ref.nodes] = [kind |-> "nodes", rot |-> rig.rot, tweenWidth |-> rig.tweenWidth,
                     tweens |-> rig.tweens],
     ![ref.data] = [kind |-> "data", isGripping |-> rig.isGripping,
                    ikTarget |-> rig.ikTarget],
     ![ref.angles] = [kind |-> "angles", jointAngles |-> rig.jointAngles]]

PairTargets == {Vec(100, 0, 2000), Vec(-1000, 500, 1000)}
PairTimes == {0, 5 * TimeDen}

InitPair ==
  /\ variant \in Variants
  /\ hook = "none"
  /\ robot = createUniversalRobot(variant)
  /\ last = NoCall
  /\ firstStep = NoFirst
  /\ pool = [NoPool EXCEPT !.cells = [c \in CellIds |-> FreeCell]]
  /\ probe = NoProbe
  /\ belt = NoBelt
  /\ LoopInit

\* one more createUniversalRobot()
PairCreate ==
  /\ hook = "none"
  /\ pool.count < MaxRigs
  /\ \E ref \in {[angles |-> AnglesCell(pool.count + 1),
                  nodes |-> NodesCell(pool.count + 1),
                  data |-> DataCell(pool.count + 1)]} :
       pool' = [count |-> pool.count + 1,
                cells |-> StoreIn(pool.cells, ref, createUniversalRobot(variant)),
                refs |-> Append(pool.refs, ref),
                actor |-> pool.count + 1]
  /\ UNCHANGED <<variant, hook, robot, last, loopVars, firstStep, probe, belt>>

\* solveIK on rig i
PairSolve(i, target) ==
  /\ hook = "none"
  /\ i \in 1..pool.count
  /\ \E res \in {solveIK(variant, ViewIn(pool, i), target, CallRotation)} :
       pool' = [pool EXCEPT !.cells = StoreIn(pool.cells, pool.refs[i], res.rig),
                            !.actor = i]
  /\ UNCHANGED <<variant, hook, robot, last, loopVars, firstStep, probe, belt>>

\* animateUniversalRobot on rig i
PairAnimate(i, t) ==
  /\ hook = "none"
  /\ i \in 1..pool.count
  /\ \E out \in {animateUniversalRobot(variant, ViewIn(pool, i), t)} :
       pool' = [pool EXCEPT !.cells = StoreIn(pool.cells, pool.refs[i], out.rig),
                            !.actor = i]
  /\ UNCHANGED <<variant, hook, robot, last, loopVars, firstStep, probe, belt>>

NextPair ==
  \/ PairCreate
  \/ \E i \in 1..MaxRigs, target \in PairTargets : PairSolve(i, target)
  \/ \E i \in 1..MaxRigs, t \in PairTimes : PairAnimate(i, t)

SpecPair == InitPair /\ [][NextPair]_vars

(* ------------------------ the cycle's functions ------------------------- *)
\* smoothStep applied to progress values k / EaseSteps, one after another,
\* and the phase-determined target taken at both sides of a phase boundary
EaseXs == {(k * Scale) \div EaseSteps : k \in 0..EaseSteps}

\* the target of a phase at eased progress s with the oscillation left out
BaseTarget(v, cycle, s) == TargetAt(v, cycle, s, 0, 0, 0)

InitEase ==
  /\ variant \in Variants
  /\ hook = "none"
  /\ robot = NullRig
  /\ last = NoCall
  /\ firstStep = NoFirst
  /\ SideInit
  /\ LoopInit

\* smoothStep(x), remembering the application before it
Ease(x) ==
  /\ hook = "none"
  /\ probe' = [probe EXCEPT !.op = "smoothStep", !.x = x, !.y = smoothStep(x),
                            !.px = probe.x, !.py = probe.y]
  /\ UNCHANGED <<variant, hook, robot, last, loopVars, firstStep, pool, belt>>

\* the target at progress 1 of phase k and at progress 0 of the phase after it
Boundary(k) ==
  /\ hook = "none"
  /\ probe' = [probe EXCEPT !.op = "boundary", !.phase = k,
                            !.atEnd = BaseTarget(variant, k, smoothStep(Scale)),
                            !.atStart = BaseTarget(variant, (k + 1) % 4, smoothStep(0))]
  /\ UNCHANGED <<variant, hook, robot, last, loopVars, firstStep, pool, belt>>

NextEase ==
  \/ \E x \in EaseXs : Ease(x)
  \/ \E k \in 0..3 : Boundary(k)

SpecEase == InitEase /\ [][NextEase]_vars

(* --------------------------- the frame loop ----------------------------- *)
\* Hooks H7 and H8 drive the universal robot of revision A, B or C.  Hooks
\* H0 and Scene belong to src/lib/utils/threeUtils.ts, which has no
\* universal robot (variant "none"): they animate the createRoboticArm rig.
Init ==
  /\ \/ hook \in {"H7", "H8"} /\ variant \in Variants
     \/ hook \in {"H0", "Scene"} /\ variant = "none"
  /\ robot = NullRig
  /\ last = NoCall
  /\ firstStep = NoFirst
  /\ SideInit
  /\ LoopInit

\* requestAnimationFrame returns an id no live reference holds
UsedIds(pending) == {r.id : r \in pending} \cup {frameIds[g] : g \in 0..MaxGen}
FreshId(pending) ==
  CHOOSE i \in 1..(2 * MaxGen + 3) :
    /\ i \notin UsedIds(pending)
    /\ \A j \in 1..(i - 1) : j \in UsedIds(pending)

\* mutation of Request: the callback is registered twice
Request_Twice(pending, g) ==
  pending \cup {[id |-> FreshId(pending), gen |-> g],
                [id |-> FreshId(pending) + 1, gen |-> g]}

\* requestAnimationFrame(animate) by effect run g
Request(pending, g) == pending \cup {[id |-> FreshId(pending), gen |-> g]}

\* mutation of Cancel: the request is left pending
Cancel_Forgotten(pending, id) == pending

\* mutation of Cancel: the test on the id is the wrong way round
Cancel_Inverted(pending, id) == {r \in pending : r.id = id}

\* cancelAnimationFrame(id)
Cancel(pending, id) == {r \in pending : r.id # id}

\* the rig initScene puts in robotRef: createUniversalRobot(), then
\* robot.position.set(0, 0, 0) and robot.scale.set(0.8, 0.8, 0.8) in part_007,
\* robot.position.y = -1 in part_008
SceneRobot(h, v) ==
  LET rig == createUniversalRobot(v)
  IN  IF h = "H7" THEN [rig EXCEPT !.xf.pos = ZeroVec, !.xf.scale = 800]
      ELSE [rig EXCEPT !.xf.pos.y = -1000]

\* the body of the effect up to the point where it returns its cleanup
RunEffect ==
  /\ hook \in Hooks
  /\ ~active
  /\ container
  /\ gen < MaxGen
  /\ gen' = gen + 1
  /\ active' = TRUE
  /\ mountedRef' = IF hook = "H7" THEN TRUE ELSE mountedRef
  /\ mounted' = IF hook = "H8" THEN [mounted EXCEPT ![gen + 1] = TRUE] ELSE mounted
  /\ timeouts' = IF hook \in {"H7", "H8"} THEN timeouts \cup {gen + 1} ELSE timeouts
  /\ IF hook \in {"H0", "Scene"}
     THEN /\ refs' = TRUE
          /\ robot' = ArmRig
          /\ renderer' = "live"
          /\ raf' = Request(raf, gen + 1)
          /\ frameIds' = [frameIds EXCEPT ![IF hook = "H0" THEN 0 ELSE gen + 1] = FreshId(raf)]
          /\ last' = [NoCall EXCEPT !.op = IF hook = "Scene" THEN "frame" ELSE "effect",
                                    !.ran = (hook = "Scene"),
                                    !.rendered = (hook = "Scene"),
                                    !.requested = TRUE]
     ELSE /\ UNCHANGED <<refs, robot, renderer, raf, frameIds>>
          /\ last' = [NoCall EXCEPT !.op = "effect"]
  /\ UNCHANGED <<variant, hook, clock, container, firstStep, sideVars>>

\* the setTimeout(initScene, 0) of effect run g fires
InitScene(g) ==
  /\ hook \in {"H7", "H8"}
  /\ g \in timeouts
  /\ timeouts' = timeouts \ {g}
  /\ IF container /\ (IF hook = "H7" THEN mountedRef ELSE mounted[g])
     THEN /\ refs' = TRUE
          /\ robot' = SceneRobot(hook, variant)
          /\ renderer' = "live"
          /\ raf' = Request(raf, g)
          /\ frameIds' = [frameIds EXCEPT ![0] = FreshId(raf)]
          /\ last' = [NoCall EXCEPT !.op = "initScene", !.requested = TRUE]
     ELSE /\ UNCHANGED <<refs, robot, renderer, raf, frameIds>>
          /\ last' = [NoCall EXCEPT !.op = "initScene"]
  /\ UNCHANGED <<variant, hook, clock, gen, active, container, mountedRef, mounted,
                 firstStep, sideVars>>

\* the guard at the top of the frame callback of effect run g
CallbackAlive(g) ==
  CASE hook = "H7" -> mountedRef /\ refs
    [] hook = "H8" -> mounted[g] /\ refs
    [] OTHER       -> refs

\* the browser runs the frame callback of a pending request, dt ticks after
\* the previous callback
Frame(r, dt) ==
  /\ hook \in Hooks
  /\ r \in raf
  /\ clock + dt <= MaxTime
  /\ clock' = clock + dt
  /\ IF ~CallbackAlive(r.gen)
     THEN /\ raf' = raf \ {r}
          /\ last' = [NoCall EXCEPT !.op = "frame", !.time = clock + dt, !.dt = dt]
          /\ UNCHANGED <<robot, frameIds>>
     ELSE IF hook \in {"H0", "Scene"}
     THEN /\ raf' = Request(raf \ {r}, r.gen)
          /\ frameIds' = [frameIds EXCEPT ![IF hook = "H0" THEN 0 ELSE r.gen] =
                                            FreshId(raf \ {r})]
          /\ last' = [NoCall EXCEPT !.op = "frame", !.time = clock + dt, !.dt = dt,
                                    !.ran = TRUE, !.rendered = TRUE, !.requested = TRUE]
          /\ UNCHANGED robot
     ELSE \E out \in {animateUniversalRobot(variant, robot, clock + dt)} :
          /\ robot' = out.rig
          /\ raf' = IF out.threw THEN raf \ {r} ELSE Request(raf \ {r}, r.gen)
          /\ frameIds' = IF out.threw THEN frameIds
                         ELSE [frameIds EXCEPT ![0] = FreshId(raf \ {r})]
          /\ last' = [NoCall EXCEPT !.op = "frame", !.time = clock + dt, !.dt = dt,
                                    !.step = out.step, !.target = out.step.target,
                                    !.rotation = out.step.rotation, !.ik = out.ik,
                                    !.threw = out.threw, !.logged = out.logged,
                                    !.ran = out.ran, !.prev = PrevOf(last),
                                    !.rendered = ~out.threw, !.requested = ~out.threw]
  /\ UNCHANGED <<variant, hook, gen, active, container, mountedRef, mounted, timeouts,
                 refs, renderer, firstStep, sideVars>>

\* the cleanup the effect returned; unmount tells whether the view goes away
\* (React then clears containerRef) or the effect is about to run again
Cleanup(unmount) ==
  /\ hook \in Hooks
  /\ active
  /\ active' = FALSE
  /\ container' = IF unmount THEN FALSE ELSE container
  /\ mountedRef' = IF hook = "H7" THEN FALSE ELSE mountedRef
  /\ mounted' = IF hook = "H8" THEN [mounted EXCEPT ![gen] = FALSE] ELSE mounted
  /\ timeouts' = IF hook = "H7" THEN timeouts \ {gen} ELSE timeouts
  /\ raf' = LET id == frameIds[IF hook = "Scene" THEN gen ELSE 0]
            IN  IF id # 0 THEN Cancel(raf, id) ELSE raf
  /\ frameIds' = IF hook = "H7" THEN [frameIds EXCEPT ![0] = 0] ELSE frameIds
  /\ renderer' = IF hook \in {"H7", "Scene"} /\ renderer = "live" THEN "disposed" ELSE renderer
  /\ refs' = IF hook = "H7" THEN FALSE ELSE refs
  /\ robot' = IF hook = "H7" THEN NullRig ELSE robot
  /\ last' = [NoCall EXCEPT !.op = "cleanup",
                            !.cancelled = (frameIds[IF hook = "Scene" THEN gen ELSE 0]
                                             \in {r.id : r \in raf})]
  /\ UNCHANGED <<variant, hook, clock, gen, firstStep, sideVars>>

Next ==
  \/ RunEffect
  \/ \E g \in Gens : InitScene(g)
  \/ \E r \in raf, dt \in 0..MaxDt : Frame(r, dt)
  \/ \E unmount \in BOOLEAN : Cleanup(unmount)

Spec == Init /\ [][Next]_vars

(* ---------------------- the loop with a damaged rig --------------------- *)
\* The hooks hand robotRef.current to their caller (`roboticArm`), which can
\* reach the rig's userData.  Misuse lets a joint reference of the rig go
\* missing while the loop runs.
Misuse ==
  /\ hook \in {"H7", "H8"}
  /\ refs
  /\ robot.kind = "group"
  /\ 2 \in robot.joints
  /\ robot' = [robot EXCEPT !.joints = @ \ {2}]
  /\ last' = [NoCall EXCEPT !.op = "misuse"]
  /\ UNCHANGED <<variant, hook, loopVars, firstStep, sideVars>>

NextFault == Next \/ Misuse

SpecFault == Init /\ [][NextFault]_vars

(* --------------------------- the conveyor loop -------------------------- *)
\* RoboticScene (part_000): the effect with dependencies [scene, sceneReady]
\* adds the conveyor once and starts animateConveyor, which turns the two
\* rollers by 0.01 and requests the next frame.  belt.calls counts the runs
\* of animateConveyor: the rollers stand at calls * 0.01 and as many frames
\* have been requested.
\* the hook reports the scene ready (setSceneReady(true)); the component
\* renders again and the effect's dependencies have changed
BeltReady ==
  /\ hook = "none"
  /\ belt.mounted /\ ~belt.ready
  /\ belt' = [belt EXCEPT !.ready = TRUE, !.scenes = 1, !.dirty = TRUE]
  /\ UNCHANGED <<variant, robot, last, hook, loopVars, firstStep, pool, probe>>

\* the hook initialises again and returns another scene object
BeltScene ==
  /\ hook = "none"
  /\ belt.mounted /\ belt.ready /\ belt.scenes < MaxGen
  /\ belt' = [belt EXCEPT !.scenes = @ + 1, !.dirty = TRUE]
  /\ UNCHANGED <<variant, robot, last, hook, loopVars, firstStep, pool, probe>>

\* the effect runs: if (scene && sceneReady && !conveyorRef.current) it
\* creates the conveyor and calls animateConveyor(); it returns no cleanup
BeltEffect ==
  /\ hook = "none"
  /\ belt.mounted /\ belt.dirty
  /\ belt' = IF belt.ready /\ ~belt.conveyor
             THEN [belt EXCEPT !.dirty = FALSE, !.conveyor = TRUE, !.starts = @ + 1,
                               !.calls = @ + 1, !.pending = @ + 1]
             ELSE [belt EXCEPT !.dirty = FALSE]
  /\ UNCHANGED <<variant, robot, last, hook, loopVars, firstStep, pool, probe>>

\* the browser runs a pending animateConveyor: the rollers turn and
\* requestAnimationFrame(animateConveyor) is called again, whatever the
\* state of the component
BeltFrame ==
  /\ hook = "none"
  /\ belt.pending > 0
  /\ belt.calls < MaxRoll
  /\ belt' = [belt EXCEPT !.calls = @ + 1]
  /\ UNCHANGED <<variant, robot, last, hook, loopVars, firstStep, pool, probe>>

\* the component unmounts; neither effect cleanup touches the conveyor loop
\* and conveyorRef keeps its value
BeltUnmount ==
  /\ hook = "none"
  /\ belt.mounted
  /\ belt' = [belt EXCEPT !.mounted = FALSE]
  /\ UNCHANGED <<variant, robot, last, hook, loopVars, firstStep, pool, probe>>

InitBelt ==
  /\ variant = "none"
  /\ hook = "none"
  /\ robot = NullRig
  /\ last = NoCall
  /\ firstStep = NoFirst
  /\ SideInit
  /\ LoopInit

NextBelt ==
  \/ BeltReady
  \/ BeltScene
  \/ BeltEffect
  \/ BeltFrame
  \/ BeltUnmount

SpecBelt == InitBelt /\ [][NextBelt]_vars

(* ============================ properties =============================== *)
\* a frame callback of the universal-robot loop that ran the motion step
MotionFrame == last.op = "frame" /\ last.ran /\ hook \in {"H7", "H8"}

\* C1: for every time >= 0 handed to the motion-cycle step, the phase index
\* is floor(time * freq) mod 4 and lies in 0..3, and the intra-phase progress
\* is (time * freq) mod 1 and lies in [0, 1]; both depend on the time only.
C1_PhaseFromTime ==
  (MotionFrame /\ last.time >= 0) =>
    LET n == last.time * FreqNum(variant)
        d == TimeDen * FreqDen(variant)
    IN  /\ last.step.cycle = (n \div d) % 4
        /\ last.step.cycle \in 0..3
        /\ last.step.cycleTimeNum = n - d * (n \div d)
        /\ 0 <= last.step.cycleTimeNum /\ last.step.cycleTimeNum <= d

\* a frame late in the last phase of the cycle
C1_Witness ==
  MotionFrame /\ last.time > 0 /\ last.step.cycle = 3 /\ last.step.cycleTimeNum > 0

\* two successive frame callbacks that both ran the motion step
SuccessiveFrames ==
  /\ hook \in {"H7", "H8"}
  /\ last.op = "frame" /\ last.ran
  /\ last'.op = "frame" /\ last'.ran

\* the gap between the two frames is at most num/den of a phase duration
GapWithin(dt, num, den) ==
  den * dt * FreqNum(variant) <= num * TimeDen * FreqDen(variant)

\* C2 as stated: with non-decreasing frame times the phase of a frame is the
\* phase of the previous frame or its successor mod 4.
C2_Original ==
  [][SuccessiveFrames =>
       last'.step.cycle \in {last.step.cycle, (last.step.cycle + 1) % 4}]_vars

\* C2 amended: when two successive frames are at most one phase duration
\* (1/freq seconds) apart, the phase of the later frame is the phase of the
\* earlier one or its successor mod 4.
C2_PhaseOrder ==
  [][(SuccessiveFrames /\ GapWithin(last'.dt, 1, 1)) =>
       last'.step.cycle \in {last.step.cycle, (last.step.cycle + 1) % 4}]_vars

\* the wrap from phase 3 back to phase 0 between two frames close together
C2_Witness ==
  /\ MotionFrame /\ last.prev.has /\ GapWithin(last.dt, 1, 1)
  /\ last.prev.cycle = 3 /\ last.step.cycle = 0

\* C3: in the revisions with a gripper output, the output is open in phase 0
\* and closed in phases 1 and 2, whatever the progress inside the phase.
C3_GripByPhase ==
  (MotionFrame /\ variant # "A") =>
    /\ last.step.cycle = 0 => ~last.step.grip
    /\ last.step.cycle \in {1, 2} => last.step.grip
    /\ variant = "B" => /\ robot.isGripping = last.step.grip
                        /\ robot.tweenWidth = IF last.step.grip THEN 80 ELSE 150

\* a frame inside the transfer phase with the gripper closed
C3_Witness ==
  /\ MotionFrame /\ variant = "B"
  /\ last.step.cycle = 2 /\ last.step.cycleTimeNum > 0 /\ robot.isGripping

\* in phase 3 the output is closed exactly while the raw progress is < 0.3
ReleaseAtThreeTenths ==
  (MotionFrame /\ variant # "A" /\ last.step.cycle = 3) =>
    (last.step.grip <=> 10 * last.step.cycleTimeNum < 3 * TimeDen * FreqDen(variant))

\* where the output may change between two successive frames
GripChangesInOrder ==
  /\ (last.step.grip /\ ~last'.step.grip) => last'.step.cycle = 3
  /\ (~last.step.grip /\ last'.step.grip) => (last.step.cycle = 0 /\ last'.step.cycle = 1)

\* C4 as stated: the release threshold, and with non-decreasing frame times
\* the output goes closed -> open only inside phase 3 and open -> closed only
\* at the phase 0 -> 1 boundary.
C4_Original ==
  [][(SuccessiveFrames /\ variant # "A") => GripChangesInOrder]_vars

\* C4 amended: in phase 3 the output is closed exactly while the raw progress
\* is < 0.3; between two successive frames at most 0.7 of a phase duration
\* apart it goes closed -> open only with the later frame in phase 3, and
\* open -> closed only from a frame in phase 0 to a frame in phase 1.
C4_ReleaseTiming ==
  /\ []ReleaseAtThreeTenths
  /\ [][(SuccessiveFrames /\ variant # "A" /\ GapWithin(last'.dt, 7, 10))
          => GripChangesInOrder]_vars

\* the release observed: closed on the previous frame, open on this one
C4_Witness ==
  /\ MotionFrame /\ variant # "A" /\ last.prev.has /\ GapWithin(last.dt, 7, 10)
  /\ last.prev.grip /\ ~last.step.grip /\ last.step.cycle = 3

(* ------------------------ properties of solveIK ------------------------- *)
\* the last call computed the two-link solve (it got past the guards)
Solved == hook = "none" /\ last.op \in {"solveIK", "animate"} /\ last.ik.computed

\* the target is farther from the shoulder than upperArmLength + forearmLength
TooFar ==
  last.ik.distanceSq > (upperArmLength + forearmLength) * (upperArmLength + forearmLength)
\* the target is closer to the shoulder than |upperArmLength - forearmLength|
TooClose ==
  last.ik.distanceSq < (upperArmLength - forearmLength) * (upperArmLength - forearmLength)

\* C5: for a target farther than L1 + L2 from the shoulder solveIK yields
\* the fully extended elbow (elbow angle 0), and no angle it writes is NaN.
C5_FarTargetExtends ==
  (Solved /\ TooFar) =>
    /\ last.ik.elbowAngle = 0
    /\ robot.jointAngles[3] = 0
    /\ Usable(robot, 3) => robot.rot[3].z = -HalfPI
    /\ \A k \in 1..3 : IsNum(robot.jointAngles[k]) /\ IsNum(robot.rot[k].z)

\* a direct solve of a target out of reach, strictly beyond the clamp
C5_Witness ==
  /\ Solved /\ TooFar /\ last.op = "solveIK" /\ last.ik.arg < -Scale
  /\ robot.jointAngles[3] = 0

\* C6: for a target closer than |L1 - L2| to the shoulder solveIK yields the
\* fully folded elbow (elbow angle PI), and no angle it writes is NaN.
C6_NearTargetFolds ==
  (Solved /\ TooClose) =>
    /\ last.ik.elbowAngle = PI
    /\ robot.jointAngles[3] = PI
    /\ Usable(robot, 3) => robot.rot[3].z = PI - HalfPI
    /\ \A k \in 1..3 : IsNum(robot.jointAngles[k]) /\ IsNum(robot.rot[k].z)

\* a direct solve of a target inside the inner limit, strictly beyond the clamp
C6_Witness ==
  /\ Solved /\ TooClose /\ last.op = "solveIK" /\ last.ik.arg > Scale
  /\ robot.jointAngles[3] = PI

\* C7 as stated: the law-of-cosines argument is clamped to +1 for a target
\* that is too far and to -1 for a target that is too close.
C7_Original ==
  Solved => /\ TooFar => last.ik.clamped = Scale
            /\ TooClose => last.ik.clamped = -Scale

\* C7 amended: the argument (L1^2 + L2^2 - dist^2) / (2 L1 L2) is at most -1
\* and clamped to -1 for a target that is too far, and at least +1 and
\* clamped to +1 for a target that is too close.
C7_ClampSide ==
  Solved => /\ TooFar => (last.ik.arg <= -Scale /\ last.ik.clamped = -Scale)
            /\ TooClose => (last.ik.arg >= Scale /\ last.ik.clamped = Scale)

\* the lower clamp acting on an argument below -1
C7_Witness ==
  Solved /\ TooFar /\ last.ik.arg < -Scale /\ last.ik.clamped = -Scale

\* the yaw solveIK derives for a target
YawFor(rig, target) ==
  LET local == WorldToLocal(rig.xf, target) IN Atan2(local.x, local.z)

\* C8 as stated: solveIK on a rig that has joint1Group but lacks joint2Group
\* or joint3Group does not throw and sets jointAngles.joint1 and
\* joint1Group.rotation.y to the yaw for the target.
C8_Claim ==
  [][(/\ hook = "none" /\ last'.op = "solveIK"
      /\ robot.kind = "group" /\ robot.userData /\ robot.hasAngles
      /\ Usable(robot, 1)
      /\ (2 \notin robot.joints \/ 3 \notin robot.joints))
     => /\ ~last'.threw
        /\ robot'.jointAngles[1] = YawFor(robot, last'.target)
        /\ robot'.rot[1].y = YawFor(robot, last'.target)]_vars

\* a rig that is null, has no userData, or lacks one of the joint references
\* the solve needs
Malformed(rig) ==
  rig.kind = "null" \/ ~rig.userData \/ ~({1, 2, 3} \subseteq rig.joints)

\* C9 as stated: solveIK or animateUniversalRobot on a malformed rig returns
\* without throwing and changes no jointAngles entry and no joint rotation.
C9_Claim ==
  [][(hook = "none" /\ last'.op \in {"solveIK", "animate"} /\ Malformed(robot))
     => (~last'.threw /\ robot' = robot)]_vars

(* ----------------------- properties of the loop ------------------------- *)
\* C10: once the cleanup of the hosting effect has run, no animation-frame
\* request of the robot loop is pending and none is issued until the effect
\* runs again, also when the deferred initScene fires only after the cleanup.
C10_NoRequestAfterCleanup ==
  /\ [](~active => raf = {})
  /\ [][(~active /\ ~active') => ~last'.requested]_vars

\* a cleanup that found a request pending and cancelled it
C10_Witness == ~active /\ last.op = "cleanup" /\ last.cancelled /\ raf = {}

C12_Claim ==
  (hook = "none" /\ last.op = "animate") => ~last.threw

\* C13: the motion-cycle step is a function of the time alone: a call with
\* the time of the first call of the run yields the target position, target
\* orientation and gripper state the first call yielded, whatever calls with
\* whatever times came in between.
C13_SameTimeSameStep ==
  (last.op = "animate" /\ last.ran /\ firstStep.has /\ last.time = firstStep.time) =>
    /\ last.step.target = firstStep.step.target
    /\ last.step.rotation = firstStep.step.rotation
    /\ last.step.grip = firstStep.step.grip

\* the time of the first call comes again after a call with another time
\* has moved the rig and changed the stored gripper state
C13_Witness ==
  /\ last.op = "animate" /\ last.ran /\ firstStep.has /\ last.time = firstStep.time
  /\ firstStep.between
  /\ variant = "B" /\ ~firstStep.step.grip
  /\ robot.jointAngles[1] # 0 /\ robot.ikTarget = last.step.target

(* ------------------------ properties of the rig ------------------------- *)
\* C14 as stated: in the rig createUniversalRobot returns, joint1Group ..
\* joint6Group are all defined in userData, joint1Group descends from the
\* root, and joint(k+1)Group descends from joint(k)Group for k = 1..5.
C14_Claim ==
  (hook = "none" /\ last.op = "none" /\ robot = createUniversalRobot(variant)) =>
    /\ robot.joints = Joints
    /\ "robotGroup" \in Ancestors(variant, JointNode(variant, 1))
    /\ \A k \in 1..5 :
         JointNode(variant, k) \in Ancestors(variant, JointNode(variant, k + 1))

(* -------------------- properties of the base yaw ------------------------ *)
\* the local target of the last solveIK call
LocalTarget == WorldToLocal(robot.xf, last.target)

\* the last two calls of solveIK both solved, and the local target of the
\* later one is that of the earlier one with x negated
MirroredSolves ==
  /\ hook = "none" /\ last.op = "solveIK" /\ last.ik.computed /\ last.before.has
  /\ LocalTarget = Vec(-last.before.local.x, last.before.local.y, last.before.local.z)

\* C15 as stated: negating the x coordinate of the local target negates the
\* resolved joint1 angle, for every target.
C15_Original ==
  MirroredSolves => robot.jointAngles[1] = -last.before.joint1

\* C15 amended: negating the x coordinate of the local target negates the
\* resolved joint1 angle for every target off the ray x = 0, z < 0; on that
\* ray the target is its own mirror image and joint1 is PI both times.
C15_YawMirror ==
  MirroredSolves =>
    IF LocalTarget.x = 0 /\ LocalTarget.z < 0
    THEN robot.jointAngles[1] = PI /\ last.before.joint1 = PI
    ELSE robot.jointAngles[1] = -last.before.joint1

\* a target behind the base and to one side, solved right after its mirror image
C15_Witness ==
  /\ MirroredSolves /\ LocalTarget.x < 0 /\ LocalTarget.z < 0
  /\ robot.jointAngles[1] < -HalfPI /\ last.before.joint1 > HalfPI

\* C16: for a local target (0, y, 1) solveIK sets joint1 (the jointAngles
\* entry and joint1Group.rotation.y) to 0, and for (1, y, 0) to PI/2,
\* whatever y is.
C16_BaseYaw ==
  (hook = "none" /\ last.op = "solveIK" /\ last.ik.computed) =>
    /\ (LocalTarget.x = 0 /\ LocalTarget.z = Scale) =>
         (robot.jointAngles[1] = 0 /\ robot.rot[1].y = 0)
    /\ (LocalTarget.x = Scale /\ LocalTarget.z = 0) =>
         (robot.jointAngles[1] = HalfPI /\ robot.rot[1].y = HalfPI)

\* a target straight to the side, above the base plane, solved to a quarter turn
C16_Witness ==
  /\ hook = "none" /\ last.op = "solveIK" /\ last.ik.computed
  /\ LocalTarget = Vec(Scale, 500, 0) /\ robot.jointAngles[1] = HalfPI

(* -------------------- the end-to-end solve scenario --------------------- *)
\* the rig at the identity with the shoulder at the origin, solved for the
\* target (0, 0, 2.0)
ScenarioSolve ==
  /\ hook = "none" /\ last.op = "solveIK" /\ last.ik.computed
  /\ robot.xf = IdentityXf /\ robot.joint2PosY = 0
  /\ last.target = Vec(0, 0, 2 * Scale)

\* C17 as stated: in the scenario joint1 resolves to 0 and the
\* law-of-cosines argument (5.76 + 4.84 - 4.0) / (2 * 2.4 * 2.2) is 0.5871...
C17_Original ==
  ScenarioSolve => (robot.jointAngles[1] = 0 /\ last.ik.arg \in {587, 588})

\* C17 amended: in the scenario joint1 resolves to 0 and the law-of-cosines
\* argument (5.76 + 4.84 - 4.0) / (2 * 2.4 * 2.2) = 6.6 / 10.56 is 0.625.
C17_ScenarioArgument ==
  ScenarioSolve =>
    /\ robot.jointAngles[1] = 0
    /\ last.ik.distanceSq = 4 * Scale * Scale
    /\ ((2 * upperArmLength * forearmLength) \div Scale) * last.ik.arg =
         upperArmLength * upperArmLength + forearmLength * forearmLength
           - last.ik.distanceSq
    /\ last.ik.arg = 625

\* the scenario solved on the rig of the revision with the 2.4 / 2.2 links
C17_Witness ==
  ScenarioSolve /\ variant = "B" /\ last.ik.arg = 625 /\ last.ik.clamped = 625

(* --------------------- rigs with one joint missing ---------------------- *)
\* a direct solveIK call with a targetRotation has ended on a rig that lacks
\* exactly one joint handle or one settable rotation
OneJointMissing ==
  /\ hook = "none" /\ last.op = "solveIK" /\ last.rotation # NoRotation
  /\ robot.kind = "group" /\ robot.userData /\ robot.hasAngles
  /\ Cardinality({k \in Joints : ~Usable(robot, k)}) = 1

\* C18: when one joint handle is missing or lacks a settable rotation, only
\* that joint is skipped: the call returns normally, the chain is solved, and
\* every joint that is present holds its solved angle.
C18_Claim ==
  OneJointMissing =>
    /\ ~last.threw
    /\ last.ik.computed
    /\ Usable(robot, 1) => robot.rot[1].y = last.ik.joint1
    /\ Usable(robot, 2) => robot.rot[2].z = last.ik.shoulderAngle
    /\ Usable(robot, 3) => robot.rot[3].z = Sub(last.ik.elbowAngle, HalfPI)
    /\ Usable(robot, 4) => robot.rot[4].z = last.rotation.z
    /\ Usable(robot, 5) => robot.rot[5].y = last.rotation.y
    /\ Usable(robot, 6) => robot.rot[6].x = last.rotation.x

(* ------------------------ solve before render --------------------------- *)
\* a frame callback of a hook that drives the robot has just called render
RenderedFrame ==
  hook \in {"H7", "H8"} /\ last.op = "frame" /\ last.rendered

\* C19: when a frame callback calls render, animateUniversalRobot has run to
\* its end for that frame's time; the angles the rig holds at that moment are
\* the ones solved from the motion step of that time, none left over from
\* another frame.
C19_SolveBeforeRender ==
  RenderedFrame =>
    /\ last.ran /\ ~last.threw
    /\ last.time = clock
    /\ last.step = MotionStep(variant, clock)
    /\ last.ik.computed =>
         /\ last.ik.joint1 = BaseYaw(WorldToLocal(robot.xf, last.step.target))
         /\ robot.jointAngles[1] = last.ik.joint1
         /\ robot.jointAngles[2] = last.ik.shoulderAngle
         /\ robot.jointAngles[3] = last.ik.elbowAngle
         /\ robot.rot[1].y = last.ik.joint1
         /\ robot.rot[2].z = last.ik.shoulderAngle
         /\ robot.rot[3].z = Sub(last.ik.elbowAngle, HalfPI)
         /\ robot.jointAngles[4] = last.step.rotation.z
         /\ robot.jointAngles[5] = last.step.rotation.y
         /\ robot.jointAngles[6] = last.step.rotation.x

\* a second rendered frame, later than the first, whose solve moved the base
C19_Witness ==
  /\ RenderedFrame /\ last.ik.computed /\ last.prev.has /\ last.dt > 0
  /\ robot.jointAngles[1] # 0

(* --------------------------- finite angles ------------------------------ *)
FiniteVec(p) == IsNum(p.x) /\ IsNum(p.y) /\ IsNum(p.z)

TurnedAxes(p) ==
  {a \in {"x", "y", "z"} :
     (a = "x" /\ p.x # 0) \/ (a = "y" /\ p.y # 0) \/ (a = "z" /\ p.z # 0)}

\* C21: after construction and any number of solves every joint node is
\* turned about at most one of its local axes.
C21_Claim ==
  hook = "none" => \A k \in robot.joints : Cardinality(TurnedAxes(robot.rot[k])) <= 1

(* ------------------------- no shared rig state -------------------------- *)
\* C22: creating, solving or animating one rig leaves every other rig's
\* jointAngles, joint node rotations, isGripping flag and ikTarget as they
\* were.
C22_NoSharedState ==
  [][\A j \in 1..pool.count :
       j # pool'.actor => ViewIn(pool', j) = ViewIn(pool, j)]_vars

\* two rigs, each moved by its own calls, the second one last, now in
\* different poses
C22_Witness ==
  /\ hook = "none" /\ variant = "B" /\ pool.count >= 2 /\ pool.actor = 2
  /\ ViewIn(pool, 1).jointAngles[1] # 0 /\ ViewIn(pool, 2).jointAngles[1] # 0
  /\ ViewIn(pool, 1).jointAngles # ViewIn(pool, 2).jointAngles
  /\ ViewIn(pool, 1).isGripping # ViewIn(pool, 2).isGripping

(* ------------------------- full re-derivation --------------------------- *)
\* the rig as it stood before any solve: same place, same joints, rest pose
RestPose(rig) ==
  [rig EXCEPT !.jointAngles = createUniversalRobot(variant).jointAngles,
              !.rot = createUniversalRobot(variant).rot]

\* C23: after a solve, solving again for the same target changes nothing, and
\* the rig is in the state the same solve produces from the rest pose,
\* whatever angles earlier solves had left.
C23_Rederived ==
  (hook = "none" /\ last.op = "solveIK" /\ ~last.threw) =>
    /\ solveIK(variant, robot, last.target, last.rotation).rig = robot
    /\ solveIK(variant, RestPose(robot), last.target, last.rotation).rig = robot

\* a solve that computed angles on a rig whose base an earlier solve, for
\* another target, had turned elsewhere
C23_Witness ==
  /\ hook = "none" /\ last.op = "solveIK" /\ last.ik.computed /\ last.before.has
  /\ last.before.joint1 # 0 /\ last.before.joint1 # robot.jointAngles[1]
  /\ robot.jointAngles[2] # 0

(* ----------------------------- link lengths ----------------------------- *)
\* C24: the rig's joint2-to-joint3 and joint3-to-joint4 offsets are the link
\* lengths solveIK computes with, and stay what createUniversalRobot built,
\* as does the shoulder's position offset.
C24_Claim ==
  (hook = "none" /\ robot.kind = "group") =>
    /\ robot.links.upper = upperArmLength
    /\ robot.links.fore = forearmLength
    /\ robot.links = createUniversalRobot(variant).links
    /\ robot.joint2PosY = createUniversalRobot(variant).joint2PosY

(* ---------------------------- gripper fingers --------------------------- *)
\* a call of animateUniversalRobot has run to its end on a rig with fingers
FingersDriven ==
  hook = "none" /\ last.op = "animate" /\ last.ran /\ ~last.threw /\ robot.fingers

\* C25: after every motion step the finger tweens aim at one width, 0.08
\* when the gripper output is closed and 0.15 when it is open; every left
\* finger is sent to -width and every right finger to +width over 0.2 s, and
\* the step itself leaves the finger positions where they were.
C25_FingerTargets ==
  FingersDriven =>
    \E w \in {80, 150} :
      /\ w = 80 <=> last.step.grip
      /\ \A f \in LeftFingers : robot.tweens[f].on /\ robot.tweens[f].x = -w
      /\ \A f \in RightFingers : robot.tweens[f].on /\ robot.tweens[f].x = w
      /\ \A f \in Fingers : robot.tweens[f].duration = 200
      /\ robot.fingerX = RestFingerX

\* a step that closes the gripper after an earlier step had opened it
C25_Witness ==
  /\ FingersDriven /\ last.step.grip /\ robot.tweens["leftFinger1"].x = -80
  /\ firstStep.has /\ ~firstStep.step.grip /\ firstStep.between

(* ------------------------------- the ease ------------------------------- *)
\* C26: smoothStep(x) is 2 x^2 below 0.5 and 1 - (-2x + 2)^2 / 2 from 0.5 on;
\* on [0, 1] its value lies in [0, 1], does not decrease when x grows, is 0
\* at 0, and the two branches meet at 0.5 with value 0.5.
C26_Ease ==
  (probe.op = "smoothStep" /\ probe.x \in 0..Scale /\ probe.px \in 0..Scale) =>
    /\ 2 * probe.x < Scale => probe.y = (2 * probe.x * probe.x) \div Scale
    /\ 2 * probe.x >= Scale =>
         probe.y = Scale - (((2 * Scale - 2 * probe.x) * (2 * Scale - 2 * probe.x))
                              \div Scale) \div 2
    /\ probe.y \in 0..Scale
    /\ probe.px <= probe.x => probe.py <= probe.y
    /\ probe.x = 0 => probe.y = 0
    /\ 2 * probe.x = Scale =>
         /\ 2 * probe.y = Scale
         /\ EaseIn(probe.x) = probe.y /\ EaseOut(probe.x) = probe.y

\* the ease taken at the midpoint after a smaller progress
C26_Witness ==
  /\ probe.op = "smoothStep" /\ 2 * probe.x = Scale /\ 2 * probe.y = Scale
  /\ probe.px > 0 /\ probe.px < probe.x /\ probe.py < probe.y

(* --------------------------- phase boundaries --------------------------- *)
\* C27 as stated: with the oscillation left out, the target at progress 1 of a phase is
\* the target at progress 0 of the next phase, the wrap from phase 3 to
\* phase 0 included.
C27_Original ==
  probe.op = "boundary" => probe.atEnd = probe.atStart

\* C27 amended: with the oscillation left out, the target at progress 1 of
\* phase 0, 1 or 2 is the target at progress 0 of the phase after it.
C27_InnerBoundaries ==
  (probe.op = "boundary" /\ probe.phase \in 0..2) => probe.atEnd = probe.atStart

\* the boundary between the lift and the transfer, away from the origin
C27_Witness ==
  /\ probe.op = "boundary" /\ probe.phase = 1 /\ variant = "B"
  /\ probe.atEnd = probe.atStart /\ probe.atEnd.y = -500 /\ probe.atEnd.x = 4000

(* ---------------------------- a single loop ----------------------------- *)
\* C28: at any time at most one animation-frame request of the robot loop is
\* pending; the request belongs to the current run of the effect, and there
\* is none while the effect is torn down.
C28_SingleLoop ==
  hook \in Hooks =>
    /\ Cardinality(raf) <= 1
    /\ \A r \in raf : r.gen = gen /\ active

\* the loop of the second run of the effect, one request pending, after the
\* first run's loop had been started and torn down
C28_Witness ==
  /\ hook \in Hooks /\ gen = 2 /\ active /\ Cardinality(raf) = 1
  /\ last.op = "frame" /\ last.requested /\ last.dt > 0

(* ------------------------- the loop keeps going ------------------------- *)
\* a frame callback has run while the view is mounted and the scene, camera,
\* renderer and robot references are set
FrameWhileMounted ==
  /\ hook \in Hooks /\ last.op = "frame" /\ active /\ refs
  /\ hook = "H7" => mountedRef
  /\ hook = "H8" => mounted[gen]

\* C29: a frame callback that runs while the view is mounted and the
\* references are set requests the next frame, also when the robot update of
\* that frame raised an error, so a request is pending after it.
C29_Claim ==
  FrameWhileMounted => (last.requested /\ raf # {})

(* ------------------------- the conveyor loop ends ----------------------- *)
\* C30: the conveyor loop is started at most once per component instance,
\* and once the component has unmounted no further animation frame is
\* requested for it.
C30_Claim ==
  /\ [](belt.starts <= 1)
  /\ [][~belt.mounted => belt'.calls = belt.calls]_vars

=============================================================================
